---- MODULE Spec2Model ----
(***************************************************************************)
(* Model of backend/app.py: the run store (the MongoDB "runs" collection), *)
(* the ingestion normaliser, the run analyser and the path generator.      *)
(*                                                                          *)
(* Modelling conventions                                                    *)
(*  - a JSON object / Python dict with string keys is a TLA+ function      *)
(*    whose DOMAIN is the set of keys present; <<>> is the empty object;   *)
(*  - a Python list is a sequence;                                          *)
(*  - a dict whose iteration order matters (section_times) is a sequence   *)
(*    of [k, v] pairs in insertion order;                                   *)
(*  - an f-string is the record of the values it interpolates;             *)
(*  - a run identifier is an integer token: positive tokens stand for      *)
(*    24-hex-digit strings (accepted by ObjectId), tokens <= 0 for strings *)
(*    ObjectId rejects;                                                     *)
(*  - a float quotient a / b is kept as the exact pair <<a, b>>.           *)
(***************************************************************************)
EXTENDS Integers, Sequences, FiniteSets, TLC

VARIABLES
    store,      \* runs_collection: run id -> run document
    nextId,     \* number of ObjectIds handed out by insert_one so far
    now,        \* datetime.utcnow(), as a logical clock
    apiKey,     \* OPENROUTER_API_KEY is configured (set once at start-up)
    pc,         \* per request handler: position inside analyze_run
    local,      \* per request handler: locals of the analyze_run in progress
    resp        \* the response returned by the last step (NoResponse if none)

vars == <<store, nextId, now, apiKey, pc, local, resp>>

(***************************************************************************)
(* Bounds of the model                                                      *)
(***************************************************************************)
MaxRuns == 1        \* runs ingested in one behaviour of the concurrent model
MaxSeqRuns == 1     \* runs ingested in one behaviour of the sequential model
MaxTime == 1        \* ticks of the clock
MaxOscLen == 7      \* records of a generated Event-format submission
MaxSensorLen == 3   \* records of a generated Sensor-format submission
MaxStamp == 2       \* largest timestamp of a generated Sensor record
MaxDetectLen == 2   \* records of a generated mixed-format submission
MaxCode == 255      \* largest event code, zone id and section id submitted
MaxObstacleLen == 5 \* records of a generated run of ultrasonic readings
MaxSegments == 1    \* stored segments of a generated run
MaxEvents == 2      \* stored events of a generated run
MaxCheckLen == 5    \* records of a generated run of checkpoint values

Procs == {1, 2}     \* concurrently served requests

None == "None"      \* Python's None

(***************************************************************************)
(* dict helpers                                                             *)
(***************************************************************************)
Has(d, k) == k \in DOMAIN d

\* d.get(k, dflt)
Get(d, k, dflt) == IF k \in DOMAIN d THEN d[k] ELSE dflt

\* insertion-ordered dict as a sequence of [k, v]
RECURSIVE DictFind(_, _, _)
DictFind(d, k, i) ==
    IF i > Len(d) THEN 0
    ELSE IF d[i].k = k THEN i ELSE DictFind(d, k, i + 1)

DictGet(d, k, dflt) ==
    LET i == DictFind(d, k, 1) IN IF i = 0 THEN dflt ELSE d[i].v

DictSet(d, k, val) ==
    LET i == DictFind(d, k, 1) IN
    IF i = 0 THEN Append(d, [k |-> k, v |-> val])
    ELSE [d EXCEPT ![i] = [k |-> k, v |-> val]]

RECURSIVE DictSum(_)
DictSum(d) == IF d = <<>> THEN 0 ELSE d[1].v + DictSum(Tail(d))

(***************************************************************************)
(* Lookup tables                                                            *)
(***************************************************************************)
\* faulty variant: code 0 is taken for Start
EVENT_CODES_bad(code) ==
    CASE code = 1 -> "Start" [] code = 2 -> "ZoneChange" [] code = 3 -> "Shot"
      [] code = 4 -> "Obstacle" [] code = 5 -> "Stop" [] code = 6 -> "Error"
      [] code = 0 -> "Start"
      [] OTHER -> "Unknown"

\* EVENT_CODES.get(code, "Unknown")
EVENT_CODES(code) ==
    CASE code = 1 -> "Start" [] code = 2 -> "ZoneChange" [] code = 3 -> "Shot"
      [] code = 4 -> "Obstacle" [] code = 5 -> "Stop" [] code = 6 -> "Error"
      [] OTHER -> "Unknown"

\* ZONE_NAMES.get(zone_id, "Unknown")
ZONE_NAMES(zone_id) ==
    CASE zone_id = 0 -> "Start" [] zone_id = 1 -> "Red Zone"
      [] zone_id = 2 -> "Blue Zone" [] zone_id = 3 -> "Green Zone"
      [] zone_id = 4 -> "Center" [] zone_id = 5 -> "Unknown"
      [] OTHER -> "Unknown"

\* SECTION_NAMES.get(section_id, "Unknown")
SECTION_NAMES(section_id) ==
    CASE section_id = 1 -> "Red Path" [] section_id = 2 -> "Ramp"
      [] section_id = 3 -> "Green Path"
      [] OTHER -> "Unknown"

(***************************************************************************)
(* ingest_data: format detection and normalisation                         *)
(***************************************************************************)
\* has_position (line 113): raw_logs and "x" in raw_logs[0] and "y" in raw_logs[0]
has_position(raw_logs) ==
    raw_logs # <<>> /\ Has(raw_logs[1], "x") /\ Has(raw_logs[1], "y")

\* is_sensor_format (line 114)
ingest_is_sensor_format(raw_logs) ==
    raw_logs # <<>> /\ Has(raw_logs[1], "section_id")

\* faulty variant: section_id is tested before x and y
data_format_sensor_first(raw_logs) ==
    IF ingest_is_sensor_format(raw_logs) THEN "sensor"
    ELSE IF has_position(raw_logs) THEN "path"
    ELSE "event"

\* data_format (lines 117-122)
data_format(raw_logs) ==
    IF has_position(raw_logs) THEN "path"
    ELSE IF ingest_is_sensor_format(raw_logs) THEN "sensor"
    ELSE "event"

\* the three branches of the normalisation loop body (lines 125-163)
NormalizePath(log) ==
    [x |-> Get(log, "x", 0),
     y |-> Get(log, "y", 0),
     segment_id |-> Get(log, "segment_id", ""),
     segment_index |-> Get(log, "segment_index", 0),
     section_id |-> Get(log, "section_id", 0),
     section_name |-> SECTION_NAMES(Get(log, "section_id", 0)),
     timestamp_ms |-> Get(log, "timestamp", 0),
     checkpoint_success |-> Get(log, "checkpoint_success", 0),
     ultrasonic_distance |-> Get(log, "ultrasonic_distance", 0),
     claw_status |-> Get(log, "claw_status", 0)]

NormalizeSensor(log) ==
    [section_id |-> Get(log, "section_id", 0),
     section_name |-> SECTION_NAMES(Get(log, "section_id", 0)),
     timestamp_ms |-> Get(log, "timestamp", 0),
     checkpoint_success |-> Get(log, "checkpoint_success", 0),
     ultrasonic_distance |-> Get(log, "ultrasonic_distance", 0),
     claw_status |-> Get(log, "claw_status", 0),
     raw |-> log]

NormalizeEvent(log) ==
    [event_code |-> Get(log, "event", 0),
     event_name |-> EVENT_CODES(Get(log, "event", 0)),
     zone_id |-> Get(log, "data", 0),
     zone_name |-> ZONE_NAMES(Get(log, "data", 0)),
     timestamp_ms |-> Get(log, "timestamp", 0),
     raw |-> log]

\* faulty variant: a record equal to the one before it is dropped
RECURSIVE processed_logs_dedup(_)
processed_logs_dedup(raw_logs) ==
    IF raw_logs = <<>> THEN <<>>
    ELSE LET n == Len(raw_logs)
             front == processed_logs_dedup(SubSeq(raw_logs, 1, n - 1))
             rec == IF has_position(raw_logs) THEN NormalizePath(raw_logs[n])
                    ELSE IF ingest_is_sensor_format(raw_logs) THEN NormalizeSensor(raw_logs[n])
                    ELSE NormalizeEvent(raw_logs[n])
         IN  IF n > 1 /\ raw_logs[n] = raw_logs[n - 1] THEN front ELSE Append(front, rec)

\* the loop of lines 124-163: the branch is chosen by the flags computed
\* from the first record, once for the whole sequence
processed_logs(raw_logs) ==
    [i \in 1..Len(raw_logs) |->
        IF has_position(raw_logs) THEN NormalizePath(raw_logs[i])
        ELSE IF ingest_is_sensor_format(raw_logs) THEN NormalizeSensor(raw_logs[i])
        ELSE NormalizeEvent(raw_logs[i])]

\* run_doc (lines 165-176)
run_doc(data, t) ==
    [robot_id |-> Get(data, "robot_id", "unknown"),
     run_number |-> Get(data, "run_number", 0),
     logs |-> processed_logs(Get(data, "logs", <<>>)),
     events |-> Get(data, "events", <<>>),
     segments |-> Get(data, "segments", <<>>),
     metadata |-> Get(data, "metadata", <<>>),
     data_format |-> data_format(Get(data, "logs", <<>>)),
     created_at |-> t,
     analyzed |-> FALSE,
     analysis |-> None]

(***************************************************************************)
(* analyze_run: Sensor/Path strategy (lines 295-383)                       *)
(***************************************************************************)
\* one timeline entry; event is the fixed text of the f-string, name and cm
\* the values interpolated into it ("" and 0 when it interpolates none)
Entry(t, event, name, cm) == [time_ms |-> t, event |-> event, name |-> name, cm |-> cm]

\* an Optional value: <<>> is None, <<v>> is v
Some(v) == <<v>>
IsNone(o) == o = <<>>

\* faulty variant: every reading below 15 is reported
ObstacleDetected_level(logs, i) ==
    Get(logs[i], "ultrasonic_distance", 0) < 15

\* the condition of line 343, for the record at (1-based) index i
ObstacleDetected(logs, i) ==
    /\ Get(logs[i], "ultrasonic_distance", 0) < 15
    /\ (i = 1 \/ Get(logs[i - 1], "ultrasonic_distance", 50) >= 15)

\* body of the loop of lines 302-347, for the record at (1-based) index i
SensorStep(logs, i, acc) ==
    LET log == logs[i]
        timestamp_ms == Get(log, "timestamp_ms", 0)
        section_id == Get(log, "section_id", 0)
        section_name == Get(log, "section_name", "Unknown")
        checkpoint == Get(log, "checkpoint_success", 0)
        ultrasonic == Get(log, "ultrasonic_distance", 0)
        claw == Get(log, "claw_status", 0)
        changed == IsNone(acc.prev_section) \/ acc.prev_section[1] # section_id
        tl1 == IF changed /\ ~IsNone(acc.prev_section)
               THEN Append(acc.timeline, Entry(timestamp_ms, "Entered", section_name, 0))
               ELSE acc.timeline
        tl2 == IF IsNone(acc.prev_claw) THEN tl1
               ELSE IF acc.prev_claw[1] < 90 /\ claw >= 90
                    THEN Append(tl1, Entry(timestamp_ms, "Claw closed (picking up)", "", 0))
               ELSE IF acc.prev_claw[1] >= 90 /\ claw < 90
                    THEN Append(tl1, Entry(timestamp_ms, "Claw opened (dropping)", "", 0))
               ELSE tl1
        tl3 == IF ObstacleDetected(logs, i)
               THEN Append(tl2, Entry(timestamp_ms, "Obstacle detected", "", ultrasonic))
               ELSE tl2
    IN  [prev_section |-> IF changed THEN Some(section_id) ELSE acc.prev_section,
         prev_claw |-> Some(claw),
         checkpoint_hits |-> acc.checkpoint_hits + (IF checkpoint = 1 THEN 1 ELSE 0),
         checkpoint_misses |-> acc.checkpoint_misses + (IF checkpoint = 1 THEN 0 ELSE 1),
         ultrasonic_readings |-> Append(acc.ultrasonic_readings, ultrasonic),
         timeline |-> tl3,
         section_sequence |-> IF changed THEN Append(acc.section_sequence, section_name)
                              ELSE acc.section_sequence]

RECURSIVE SensorScan(_, _, _)
SensorScan(logs, i, acc) ==
    IF i > Len(logs) THEN acc ELSE SensorScan(logs, i + 1, SensorStep(logs, i, acc))

\* the locals of lines 296-300 before the loop
SensorInit ==
    [prev_section |-> <<>>, prev_claw |-> <<>>, checkpoint_hits |-> 0,
     checkpoint_misses |-> 0, ultrasonic_readings |-> <<>>,
     timeline |-> <<>>, section_sequence |-> <<>>]

\* lines 349-352: the start and end milestones
Milestones(logs, timeline) ==
    IF logs # <<>>
    THEN Append(<<Entry(0, "Run started", "", 0)>> \o timeline,
                Entry(Get(logs[Len(logs)], "timestamp_ms", 0), "Run completed", "", 0))
    ELSE timeline

\* faulty variant: an entry is put before the entries of equal time
RECURSIVE InsertByTime_unstable(_, _)
InsertByTime_unstable(sorted, e) ==
    IF sorted = <<>> THEN <<e>>
    ELSE IF sorted[Len(sorted)].time_ms < e.time_ms THEN Append(sorted, e)
    ELSE Append(InsertByTime_unstable(SubSeq(sorted, 1, Len(sorted) - 1), e),
                sorted[Len(sorted)])

\* list.sort(key=time_ms) (line 355): a stable sort, as an insertion sort
RECURSIVE InsertByTime(_, _)
InsertByTime(sorted, e) ==
    IF sorted = <<>> THEN <<e>>
    ELSE IF sorted[Len(sorted)].time_ms <= e.time_ms THEN Append(sorted, e)
    ELSE Append(InsertByTime(SubSeq(sorted, 1, Len(sorted) - 1), e), sorted[Len(sorted)])

RECURSIVE SortTimeline(_)
SortTimeline(tl) ==
    IF tl = <<>> THEN <<>>
    ELSE InsertByTime(SortTimeline(SubSeq(tl, 1, Len(tl) - 1)), tl[Len(tl)])

\* truthiness of a section name held in an Optional
Truthy(o) == o # <<>> /\ o[1] # "" /\ o[1] # None

RECURSIVE SumSeq(_)
SumSeq(s) == IF s = <<>> THEN 0 ELSE s[1] + SumSeq(Tail(s))

(***************************************************************************)
(* Section-time accounting of the Sensor/Path strategy (lines 357-370)     *)
(***************************************************************************)
\* body of the loop of lines 360-367; st = [current_section, section_start, section_times]
SectionStep(log, st) ==
    LET section_name == Get(log, "section_name", "Unknown")
        timestamp_ms == Get(log, "timestamp_ms", 0)
    IN  IF IsNone(st.current_section) \/ st.current_section[1] # section_name
        THEN [current_section |-> Some(section_name),
              section_start |-> timestamp_ms,
              section_times |->
                  IF ~IsNone(st.current_section)
                  THEN DictSet(st.section_times, st.current_section[1],
                               DictGet(st.section_times, st.current_section[1], 0)
                                   + (timestamp_ms - st.section_start))
                  ELSE st.section_times]
        ELSE st

RECURSIVE SectionScan(_, _, _)
SectionScan(logs, i, st) ==
    IF i > Len(logs) THEN st ELSE SectionScan(logs, i + 1, SectionStep(logs[i], st))

\* faulty variant: the last active section gets no final credit
SensorSectionTimes_nofinal(logs) ==
    SectionScan(logs, 1, [current_section |-> <<>>, section_start |-> 0,
                          section_times |-> <<>>]).section_times

\* lines 358-370: the scan, then the credit of the last active section
SensorSectionTimes(logs) ==
    LET st == SectionScan(logs, 1, [current_section |-> <<>>, section_start |-> 0,
                                    section_times |-> <<>>])
    IN  IF Truthy(st.current_section) /\ logs # <<>>
        THEN DictSet(st.section_times, st.current_section[1],
                     DictGet(st.section_times, st.current_section[1], 0)
                         + (Get(logs[Len(logs)], "timestamp_ms", 0) - st.section_start))
        ELSE st.section_times

\* an issue string: kind is its fixed text, subject the name interpolated,
\* num / den the number interpolated (seconds = ms / 1000, a rate, a count)
Issue(kind, subject, num, den) ==
    [kind |-> kind, subject |-> subject, num |-> num, den |-> den]

\* faulty variant: a section at exactly 120000 ms is reported too
RECURSIVE LongTimeIssues_inclusive(_)
LongTimeIssues_inclusive(section_times) ==
    IF section_times = <<>> THEN <<>>
    ELSE (IF section_times[1].v >= 120000
          THEN <<Issue("Long time in", section_times[1].k, section_times[1].v, 1000)>>
          ELSE <<>>) \o LongTimeIssues_inclusive(Tail(section_times))

\* lines 378-380: one issue per section_times item above 120000 ms, in dict order
RECURSIVE LongTimeIssues(_)
LongTimeIssues(section_times) ==
    IF section_times = <<>> THEN <<>>
    ELSE (IF section_times[1].v > 120000
          THEN <<Issue("Long time in", section_times[1].k, section_times[1].v, 1000)>>
          ELSE <<>>) \o LongTimeIssues(Tail(section_times))

\* lines 373-374; the float hits / total * 100 kept as the exact fraction.
\* (hits / total * 100 < 60 in IEEE doubles iff 100 * hits < 60 * total:
\*  a ratio of exactly 3/5 evaluates to 60.0, a smaller one differs from
\*  3/5 by at least 1 / (5 * total).)
checkpoint_rate(hits, misses) ==
    IF hits + misses > 0 THEN [num |-> hits * 100, den |-> hits + misses]
    ELSE [num |-> 0, den |-> 1]

\* line 375
ultrasonic_avg(readings) ==
    IF readings # <<>> THEN [num |-> SumSeq(readings), den |-> Len(readings)]
    ELSE [num |-> 0, den |-> 1]

\* the is_sensor_format branch of analyze_run (lines 295-383) and the
\* base_analysis it leads to (lines 435-445)
AnalyzeSensor(logs) ==
    LET acc == SensorScan(logs, 1, SensorInit)
        section_times == SensorSectionTimes(logs)
        rate == checkpoint_rate(acc.checkpoint_hits, acc.checkpoint_misses)
    IN  [timeline |-> SortTimeline(Milestones(logs, acc.timeline)),
         section_sequence |-> acc.section_sequence,
         section_times |-> section_times,
         issues |-> LongTimeIssues(section_times)
                    \o (IF rate.num < 60 * rate.den
                        THEN <<Issue("Low checkpoint success rate", "", rate.num, rate.den)>>
                        ELSE <<>>),
         checkpoint_rate |-> rate,
         ultrasonic_avg |-> ultrasonic_avg(acc.ultrasonic_readings)]

(***************************************************************************)
(* analyze_run: Event strategy (lines 386-413)                             *)
(***************************************************************************)
IsZoneChange(log) == Get(log, "event_name", None) = "ZoneChange"

\* the subscripts log["zone_name"], log["timestamp_ms"], logs[i + 1]["timestamp_ms"]
\* (lines 387, 395-397) raise KeyError on a record that lacks the key
EventKeyError(logs) ==
    \E i \in 1..Len(logs) :
        /\ IsZoneChange(logs[i])
        /\ \/ ~Has(logs[i], "zone_name")
           \/ ~Has(logs[i], "timestamp_ms")
           \/ (i + 1 <= Len(logs) /\ ~Has(logs[i + 1], "timestamp_ms"))

\* line 387
RECURSIVE zone_sequence(_)
zone_sequence(logs) ==
    IF logs = <<>> THEN <<>>
    ELSE (IF IsZoneChange(logs[1]) THEN <<logs[1].zone_name>> ELSE <<>>)
         \o zone_sequence(Tail(logs))

\* faulty variant: a later visit of a zone replaces the time of the earlier
RECURSIVE EventSectionTimes_assign(_, _, _)
EventSectionTimes_assign(logs, i, section_times) ==
    IF i > Len(logs) THEN section_times
    ELSE IF IsZoneChange(logs[i])
         THEN LET zone == logs[i].zone_name
                  start_time == logs[i].timestamp_ms
                  end_time == IF i + 1 <= Len(logs) THEN logs[i + 1].timestamp_ms
                              ELSE start_time
              IN  EventSectionTimes_assign(logs, i + 1,
                      DictSet(section_times, zone, end_time - start_time))
         ELSE EventSectionTimes_assign(logs, i + 1, section_times)

\* lines 393-398
RECURSIVE EventSectionTimes(_, _, _)
EventSectionTimes(logs, i, section_times) ==
    IF i > Len(logs) THEN section_times
    ELSE IF IsZoneChange(logs[i])
         THEN LET zone == logs[i].zone_name
                  start_time == logs[i].timestamp_ms
                  end_time == IF i + 1 <= Len(logs) THEN logs[i + 1].timestamp_ms
                              ELSE start_time
              IN  EventSectionTimes(logs, i + 1,
                      DictSet(section_times, zone,
                              DictGet(section_times, zone, 0) + (end_time - start_time)))
         ELSE EventSectionTimes(logs, i + 1, section_times)

\* lines 400-402
RECURSIVE StuckIssues(_)
StuckIssues(section_times) ==
    IF section_times = <<>> THEN <<>>
    ELSE (IF section_times[1].v > 10000
          THEN <<Issue("Stuck in", section_times[1].k, section_times[1].v, 1000)>>
          ELSE <<>>) \o StuckIssues(Tail(section_times))

\* faulty variant: the middle zone is not required to differ
oscillations_adjacent(zs) ==
    Cardinality({i \in 3..Len(zs) : zs[i] = zs[i - 2]})

\* lines 404-407: range(2, len) is 0-based, 3..Len is the same range 1-based
oscillations(zs) ==
    Cardinality({i \in 3..Len(zs) : zs[i] = zs[i - 2] /\ zs[i] # zs[i - 1]})

\* the else branch of analyze_run (lines 386-413) and its base_analysis
\* (lines 435-440); only evaluated when ~EventKeyError(logs)
AnalyzeEvent(logs) ==
    LET zs == zone_sequence(logs)
        section_times == EventSectionTimes(logs, 1, <<>>)
    IN  [timeline |-> <<>>,
         section_sequence |-> zs,
         section_times |-> section_times,
         issues |-> StuckIssues(section_times)
                    \o (IF oscillations(zs) > 2
                        THEN <<Issue("Oscillation detected", "", oscillations(zs), 1)>>
                        ELSE <<>>)]

\* faulty variant: the strategy is chosen by the position fields
is_sensor_format_position(logs) ==
    IF logs # <<>> THEN Has(logs[1], "x") /\ Has(logs[1], "y") ELSE FALSE

\* line 287: is_sensor_format of analyze_run, on the logs it analyses
is_sensor_format(logs) == IF logs # <<>> THEN Has(logs[1], "section_id") ELSE FALSE

\* lines 286-445: base_analysis
base_analysis(logs) ==
    IF is_sensor_format(logs) THEN AnalyzeSensor(logs) ELSE AnalyzeEvent(logs)

(***************************************************************************)
(* Path segments (lines 532-666)                                            *)
(***************************************************************************)
\* f"{emoji} {message}".strip(): the text as its non-empty parts in order;
\* an emoji is written by its name (package, soccer, construction, warning,
\* rocket, flag)
PauseText(emoji, message) == SelectSeq(<<emoji, message>>, LAMBDA w : w # "")

\* lines 532-557
get_default_segments ==
    <<
      [id |-> "s1", points |-> <<<<0, 0>>, <<0, -600>>>>, duration |-> 3000],
      [id |-> "s2", points |-> <<<<0, -600>>, <<150, -1125>>>>, duration |-> 4000,
       pause_duration |-> 2000, pause_message |-> <<"package", "Picking Up Box">>],
      [id |-> "s3", points |-> <<<<150, -1125>>, <<300, -1350>>>>, duration |-> 3000],
      [id |-> "s4", points |-> <<<<300, -1350>>, <<600, -1575>>>>, duration |-> 4000],
      [id |-> "s5", points |-> <<<<600, -1575>>, <<525, -1800>>>>, duration |-> 3000,
       pause_duration |-> 2000, pause_message |-> <<"soccer", "Shooting">>],
      [id |-> "s6", points |-> <<<<525, -1800>>, <<375, -1650>>>>, duration |-> 3000],
      [id |-> "s7", points |-> <<<<375, -1650>>, <<150, -1125>>>>, duration |-> 3000,
       pause_duration |-> 2000, pause_message |-> <<"package", "Dropping Box">>],
      [id |-> "s8", points |-> <<<<150, -1125>>, <<0, -600>>>>, duration |-> 3000],
      [id |-> "s9", points |-> <<<<0, -600>>, <<-120, -825>>>>, duration |-> 3000,
       pause_duration |-> 2000, pause_message |-> <<"package", "Picking Up Box">>],
      [id |-> "s10", points |-> <<<<-120, -825>>, <<-195, -975>>>>, duration |-> 3000],
      [id |-> "s11", points |-> <<<<-195, -975>>, <<-300, -1125>>>>, duration |-> 3000],
      [id |-> "s12", points |-> <<<<-300, -1125>>, <<-525, -975>>>>, duration |-> 3000],
      [id |-> "s13", points |-> <<<<-525, -975>>, <<-675, -1200>>>>, duration |-> 3000],
      [id |-> "s14", points |-> <<<<-675, -1200>>, <<-600, -1650>>>>, duration |-> 3000,
       pause_duration |-> 2000, pause_message |-> <<"construction", "Avoiding Obstacle">>],
      [id |-> "s15", points |-> <<<<-600, -1650>>, <<-630, -1695>>>>, duration |-> 3000],
      [id |-> "s16", points |-> <<<<-630, -1695>>, <<-900, -2100>>>>, duration |-> 3000],
      [id |-> "s17", points |-> <<<<-900, -2100>>, <<-975, -1950>>>>, duration |-> 3000],
      [id |-> "s18", points |-> <<<<-975, -1950>>, <<-1050, -1725>>>>, duration |-> 3000],
      [id |-> "s19", points |-> <<<<-1050, -1725>>, <<-975, -1575>>>>, duration |-> 3000,
       pause_duration |-> 2000, pause_message |-> <<"construction", "Avoiding Obstacle">>],
      [id |-> "s20", points |-> <<<<-975, -1575>>, <<-900, -1125>>>>, duration |-> 3000,
       pause_duration |-> 2000, pause_message |-> <<"package", "Drop Box">>],
      [id |-> "s21", points |-> <<<<-900, -1125>>, <<-825, -825>>>>, duration |-> 3000],
      [id |-> "s22", points |-> <<<<-825, -825>>, <<0, -600>>>>, duration |-> 3000]
    >>

\* ACTION_EMOJIS.get(action, "") (lines 570-578)
ACTION_EMOJIS(action) ==
    CASE action = "pickup_box" -> "package" [] action = "drop_box" -> "package"
      [] action = "shooting" -> "soccer" [] action = "avoid_obstacle" -> "construction"
      [] action = "stuck" -> "warning" [] action = "start" -> "rocket"
      [] action = "end" -> "flag"
      [] OTHER -> ""

\* ACTION_MESSAGES.get(action, dflt) (lines 580-588)
ACTION_MESSAGES(action, dflt) ==
    CASE action = "pickup_box" -> "Picking Up Box" [] action = "drop_box" -> "Dropping Box"
      [] action = "shooting" -> "Shooting Ball"
      [] action = "avoid_obstacle" -> "Avoiding Obstacle"
      [] action = "stuck" -> "Robot Stuck" [] action = "start" -> "Run Started"
      [] action = "end" -> "Run Completed"
      [] OTHER -> dflt

\* truthiness of a string-or-None value
TruthyStr(v) == v # None /\ v # ""

\* f"s{n}" for the segment numbers the model uses
SegName(n) ==
    CASE n = 1 -> "s1" [] n = 2 -> "s2" [] n = 3 -> "s3" [] n = 4 -> "s4"
      [] OTHER -> "s0"

\* lines 597-602: event_by_segment[seg_id], <<>> when the key is absent;
\* a later event of the same segment overwrites an earlier one
RECURSIVE event_by_segment(_, _)
event_by_segment(events, seg_id) ==
    IF events = <<>> THEN <<>>
    ELSE LET event == events[Len(events)] IN
         IF /\ TruthyStr(Get(event, "segment_id", None))
            /\ Get(event, "event_type", None) \notin {"start", "end"}
            /\ Get(event, "segment_id", None) = seg_id
         THEN <<event>>
         ELSE event_by_segment(SubSeq(events, 1, Len(events) - 1), seg_id)

\* faulty variant: the action tag is also used when the matching event has
\* no positive pause
segment_data_flat(seg, events) ==
    LET segment_id == Get(seg, "segment_id", SegName(Get(seg, "segment_index", 0) + 1))
        action == Get(seg, "action", None)
        base == [id |-> segment_id,
                 points |-> <<Get(seg, "start_pos", <<0, 0>>), Get(seg, "end_pos", <<0, 0>>)>>,
                 duration |-> Get(seg, "duration", 1000)]
        found == event_by_segment(events, segment_id)
    IN  IF found # <<>> /\ Get(found[1], "pause_duration", 0) > 0
        THEN [id |-> base.id, points |-> base.points, duration |-> base.duration,
              pause_duration |-> Get(found[1], "pause_duration", 0),
              pause_message |->
                  PauseText(ACTION_EMOJIS(Get(found[1], "event_type", "")),
                            ACTION_MESSAGES(Get(found[1], "event_type", ""),
                                            Get(found[1], "message", "")))]
        ELSE IF TruthyStr(action)
        THEN [id |-> base.id, points |-> base.points, duration |-> base.duration,
              pause_duration |-> 1500,
              pause_message |-> PauseText(ACTION_EMOJIS(action), ACTION_MESSAGES(action, action))]
        ELSE base

\* body of the loop of lines 606-636
segment_data(seg, events) ==
    LET segment_id == Get(seg, "segment_id", SegName(Get(seg, "segment_index", 0) + 1))
        action == Get(seg, "action", None)
        base == [id |-> segment_id,
                 points |-> <<Get(seg, "start_pos", <<0, 0>>), Get(seg, "end_pos", <<0, 0>>)>>,
                 duration |-> Get(seg, "duration", 1000)]
        found == event_by_segment(events, segment_id)
    IN  IF found # <<>>
        THEN LET event == found[1]
                 pause_duration == Get(event, "pause_duration", 0)
                 event_type == Get(event, "event_type", "")
             IN  IF pause_duration > 0
                 THEN [id |-> base.id, points |-> base.points, duration |-> base.duration,
                       pause_duration |-> pause_duration,
                       pause_message |->
                           PauseText(ACTION_EMOJIS(event_type),
                                     ACTION_MESSAGES(event_type, Get(event, "message", "")))]
                 ELSE base
        ELSE IF TruthyStr(action)
        THEN [id |-> base.id, points |-> base.points, duration |-> base.duration,
              pause_duration |-> 1500,
              pause_message |-> PauseText(ACTION_EMOJIS(action), ACTION_MESSAGES(action, action))]
        ELSE base

\* lines 591-638
generate_segments_from_run(run) ==
    LET stored_segments == Get(run, "segments", <<>>)
        events == Get(run, "events", <<>>)
    IN  [i \in 1..Len(stored_segments) |-> segment_data(stored_segments[i], events)]

\* faulty variant: the generated list is returned even when it is empty
UsesRunData_unchecked(run) ==
    Get(run, "segments", <<>>) # <<>> \/ Get(run, "data_format", None) = "path"

\* faulty variant: segments are used only for a Path-format run
UsesRunData_pathonly(run) ==
    /\ Get(run, "segments", <<>>) # <<>> /\ Get(run, "data_format", None) = "path"
    /\ generate_segments_from_run(run) # <<>>

\* lines 650-652: the run's own segments are returned
UsesRunData(run) ==
    /\ (Get(run, "segments", <<>>) # <<>> \/ Get(run, "data_format", None) = "path")
    /\ generate_segments_from_run(run) # <<>>

\* lines 649-664: the body of the 200 response of get_path_for_run
path_body(run) ==
    IF UsesRunData(run)
    THEN [segments |-> generate_segments_from_run(run),
          events |-> Get(run, "events", <<>>),
          metadata |-> Get(run, "metadata", <<>>),
          duration_ms |-> Get(Get(run, "metadata", <<>>), "duration_ms", 0)]
    ELSE [segments |-> get_default_segments]

(***************************************************************************)
(* The store and the request handlers                                       *)
(***************************************************************************)
\* {**a, **b}, and the effect of $set : b on a document a
Merge(a, b) ==
    [k \in DOMAIN a \cup DOMAIN b |-> IF k \in DOMAIN b THEN b[k] ELSE a[k]]

\* ObjectId(run_id) raises InvalidId unless run_id is a 24-hex-digit string
ValidObjectId(run_id) == run_id > 0

\* datetime.isoformat()
Isoformat(t) == <<"iso", t>>

\* jsonify(...), status: the response a handler returns
Response(op, req, status, body) ==
    [op |-> op, req |-> req, status |-> status, body |-> body]

Error(text) == [error |-> text]

\* the value of resp after a step that returns nothing to a client
NoResponse == Response("none", <<>>, 0, <<>>)

\* run_id = None in analyze_run (line 281)
NoRunId == 0

\* the locals of a handler that is not inside analyze_run
Idle == [run_id |-> NoRunId]

Init ==
    /\ store = <<>>
    /\ nextId = 0
    /\ now = 0
    /\ apiKey \in BOOLEAN
    /\ pc = [p \in Procs |-> "idle"]
    /\ local = [p \in Procs |-> Idle]
    /\ resp = NoResponse

\* the clock read by datetime.utcnow() advances
Tick ==
    /\ now < MaxTime
    /\ now' = now + 1
    /\ resp' = NoResponse
    /\ UNCHANGED <<store, nextId, apiKey, pc, local>>

\* POST /ingest (lines 90-189) with JSON body data
ingest_data(data) ==
    /\ IF DOMAIN data = {}
       THEN /\ resp' = Response("ingest", data, 400, Error("No data provided"))
            /\ UNCHANGED <<store, nextId>>
       ELSE IF ~Has(data, "logs")
       THEN /\ resp' = Response("ingest", data, 400, Error("Missing 'logs' field"))
            /\ UNCHANGED <<store, nextId>>
       ELSE /\ nextId' = nextId + 1
            /\ store' = Merge(store, [i \in {nextId + 1} |-> run_doc(data, now)])
            /\ resp' = Response("ingest", data, 201,
                   [success |-> TRUE, run_id |-> nextId + 1,
                    logs_count |-> Len(processed_logs(data.logs)),
                    events_count |-> Len(Get(data, "events", <<>>)),
                    segments_count |-> Len(Get(data, "segments", <<>>))])
    /\ UNCHANGED <<now, apiKey, pc, local>>

\* serialize_doc (lines 70-79)
serialize_doc(id, doc) ==
    Merge(doc,
          Merge([_id |-> id, created_at |-> Isoformat(doc.created_at)],
                IF Has(doc, "analyzed_at") THEN [analyzed_at |-> Isoformat(doc.analyzed_at)]
                ELSE <<>>))

\* GET /runs/<run_id> (lines 236-244)
get_run_detail(run_id) ==
    /\ resp' = IF ~ValidObjectId(run_id)
               THEN Response("get_run_detail", run_id, 500, Error("InvalidId"))
               ELSE IF run_id \notin DOMAIN store
               THEN Response("get_run_detail", run_id, 404, Error("Run not found"))
               ELSE Response("get_run_detail", run_id, 200, serialize_doc(run_id, store[run_id]))
    /\ UNCHANGED <<store, nextId, now, apiKey, pc, local>>

\* one entry of the listing (lines 213-221)
RunSummary(id) ==
    [_id |-> id,
     robot_id |-> store[id].robot_id,
     run_number |-> store[id].run_number,
     logs_count |-> Len(store[id].logs),
     created_at |-> Isoformat(store[id].created_at),
     analyzed |-> store[id].analyzed,
     metadata |-> store[id].metadata]

\* GET /runs (lines 192-233): find(query).sort("created_at", -1).skip(skip);
\* the order of runs of equal created_at is the store's choice
get_runs(robot_id, skip) ==
    LET matching == {id \in DOMAIN store : robot_id = None \/ store[id].robot_id = robot_id}
        n == Cardinality(matching)
    IN  /\ \E order \in [1..n -> matching] :
              /\ \A i, j \in 1..n : i < j =>
                     /\ order[i] # order[j]
                     /\ store[order[i]].created_at >= store[order[j]].created_at
              /\ resp' = Response("get_runs", [robot_id |-> robot_id, skip |-> skip], 200,
                     [runs |-> [i \in 1..(IF n > skip THEN n - skip ELSE 0) |->
                                   RunSummary(order[i + skip])],
                      total |-> n, limit |-> 50, skip |-> skip])
        /\ UNCHANGED <<store, nextId, now, apiKey, pc, local>>

\* DELETE /runs/clear (lines 247-257)
clear_all_runs ==
    /\ store' = <<>>
    /\ resp' = Response("clear_all_runs", <<>>, 200,
                        [success |-> TRUE, deleted_count |-> Cardinality(DOMAIN store)])
    /\ UNCHANGED <<nextId, now, apiKey, pc, local>>

\* GET /api/path/<run_id> (lines 641-666)
get_path_for_run(run_id) ==
    /\ resp' = IF ~ValidObjectId(run_id)
               THEN Response("get_path_for_run", run_id, 500, Error("InvalidId"))
               ELSE IF run_id \notin DOMAIN store
               THEN Response("get_path_for_run", run_id, 404, Error("Run not found"))
               ELSE Response("get_path_for_run", run_id, 200, path_body(store[run_id]))
    /\ UNCHANGED <<store, nextId, now, apiKey, pc, local>>

(***************************************************************************)
(* POST /analyze (lines 260-495), in the steps between which another       *)
(* request can touch the store or the network call is in flight            *)
(***************************************************************************)
Finish(p, response) ==
    /\ resp' = response
    /\ pc' = [pc EXCEPT ![p] = "idle"]
    /\ local' = [local EXCEPT ![p] = Idle]

\* lines 267-284: the request body is read, the run is fetched (find_one)
\* and the logs to analyse are fixed
AnalyzeRead(p, data) ==
    /\ pc[p] = "idle"
    /\ IF DOMAIN data = {}
       THEN Finish(p, Response("analyze", data, 400, Error("No data provided")))
       ELSE IF Has(data, "run_id") /\ ~ValidObjectId(data.run_id)
       THEN Finish(p, Response("analyze", data, 500, Error("InvalidId")))
       ELSE IF Has(data, "run_id") /\ data.run_id \notin DOMAIN store
       THEN Finish(p, Response("analyze", data, 404, Error("Run not found")))
       ELSE LET logs == IF Has(data, "run_id") THEN Get(store[data.run_id], "logs", <<>>)
                        ELSE Get(data, "logs", <<>>)
                metadata == IF Has(data, "run_id")
                            THEN Get(store[data.run_id], "metadata", <<>>)
                            ELSE Get(data, "metadata", <<>>)
                run_id == IF Has(data, "run_id") THEN data.run_id ELSE NoRunId
            IN  IF logs = <<>>
                THEN Finish(p, Response("analyze", data, 400, Error("No logs to analyze")))
                ELSE /\ pc' = [pc EXCEPT ![p] = "compute"]
                     /\ local' = [local EXCEPT ![p] =
                            [req |-> data, run_id |-> run_id, logs |-> logs,
                             metadata |-> metadata]]
                     /\ resp' = NoResponse
    /\ UNCHANGED <<store, nextId, now, apiKey>>

\* faulty variant: the mock analysis carries the time it was computed at
MockAnalysis_stamped(base) ==
    Merge(base,
          [summary |-> "OPENROUTER_API_KEY not configured. This is a mock analysis.",
           recommendations |-> <<"Configure OPENROUTER_API_KEY in .env for real AI analysis.">>,
           score |-> now])

\* lines 447-453: the analysis returned when no credential is configured
MockAnalysis(base) ==
    Merge(base,
          [summary |-> "OPENROUTER_API_KEY not configured. This is a mock analysis.",
           recommendations |-> <<"Configure OPENROUTER_API_KEY in .env for real AI analysis.">>,
           score |-> 0])

\* lines 286-453: the strategy is chosen and run, the prompt and the
\* base analysis are built; without a credential the mock analysis is made
AnalyzeCompute(p) ==
    /\ pc[p] = "compute"
    /\ IF ~is_sensor_format(local[p].logs) /\ EventKeyError(local[p].logs)
       THEN Finish(p, Response("analyze", local[p].req, 500, Error("KeyError")))
       ELSE /\ local' = [local EXCEPT ![p] =
                   Merge(local[p],
                         [analysis |-> IF apiKey THEN base_analysis(local[p].logs)
                                       ELSE MockAnalysis(base_analysis(local[p].logs))])]
            /\ pc' = [pc EXCEPT ![p] = IF apiKey THEN "external" ELSE "write"]
            /\ resp' = NoResponse
    /\ UNCHANGED <<store, nextId, now, apiKey>>

\* requests.RequestException subclasses raised by requests.post (no
\* connection, timeout) and by raise_for_status (HTTP error status)
TransportFailures == {"ConnectionError", "Timeout", "HTTPError"}

\* the JSON bodies the model endpoint can answer with: content stands for
\* choices[0].message.content; a body without it makes line 474 raise KeyError
AiResponses ==
    {[content |-> "advice 1", model |-> "google/gemini-3-flash-preview",
      usage |-> [total_tokens |-> 1]],
     [content |-> "advice 2"],
     [model |-> "google/gemini-3-flash-preview"]}

\* lines 476-482
AiAnalysis(base, ai_response) ==
    Merge(base,
          [summary |-> ai_response.content,
           raw_response |-> ai_response.content,
           model_used |-> Get(ai_response, "model", "unknown"),
           usage |-> Get(ai_response, "usage", <<>>)])

\* the except clause a failure of lines 470-471 reaches (lines 492-495)
\* faulty variant: the failure falls through to the generic clause
TransportStatus_generic(failure) == 500

TransportStatus(failure) == 502

\* faulty variant: the run is marked analyzed before the call is made
AnalyzeExternalFail_marked(p, failure) ==
    /\ pc[p] = "external"
    /\ Finish(p, Response("analyze", local[p].req, TransportStatus(failure),
                          Error(<<"OpenRouter API error", failure>>)))
    /\ store' = IF local[p].run_id \in DOMAIN store
                THEN [store EXCEPT ![local[p].run_id] =
                         Merge(store[local[p].run_id], [analyzed |-> TRUE])]
                ELSE store
    /\ UNCHANGED <<nextId, now, apiKey>>

\* lines 470-471 fail: except requests.RequestException (lines 492-493)
AnalyzeExternalFail(p, failure) ==
    /\ pc[p] = "external"
    /\ Finish(p, Response("analyze", local[p].req, TransportStatus(failure),
                          Error(<<"OpenRouter API error", failure>>)))
    /\ UNCHANGED <<store, nextId, now, apiKey>>

\* lines 470-482: the call returns a body
AnalyzeExternal(p, ai_response) ==
    /\ pc[p] = "external"
    /\ IF ~Has(ai_response, "content")
       THEN Finish(p, Response("analyze", local[p].req, 500, Error("KeyError")))
       ELSE /\ local' = [local EXCEPT ![p] =
                   Merge(local[p], [analysis |-> AiAnalysis(local[p].analysis, ai_response)])]
            /\ pc' = [pc EXCEPT ![p] = "write"]
            /\ resp' = NoResponse
    /\ UNCHANGED <<store, nextId, now, apiKey>>

\* faulty variant: the document is replaced instead of $set
WriteBack_replace(run_id, analysis, t) ==
    IF run_id \in DOMAIN store
    THEN [store EXCEPT ![run_id] =
             [analyzed |-> TRUE, analysis |-> analysis, analyzed_at |-> t]]
    ELSE store

\* faulty variant: an already analysed run is not written again
WriteBack_first(run_id, analysis, t) ==
    IF run_id \in DOMAIN store /\ ~store[run_id].analyzed
    THEN [store EXCEPT ![run_id] =
             Merge(store[run_id],
                   [analyzed |-> TRUE, analysis |-> analysis, analyzed_at |-> t])]
    ELSE store

\* faulty variant: the update is an upsert
WriteBack_upsert(run_id, analysis, t) ==
    Merge(store, [i \in {run_id} |->
        Merge(IF run_id \in DOMAIN store THEN store[run_id] ELSE <<>>,
              [analyzed |-> TRUE, analysis |-> analysis, analyzed_at |-> t])])

\* lines 485-488: update_one({"_id": run_id}, {"$set": ...}); a filter that
\* matches no document updates nothing
WriteBack(run_id, analysis, t) ==
    IF run_id \in DOMAIN store
    THEN [store EXCEPT ![run_id] =
             Merge(store[run_id],
                   [analyzed |-> TRUE, analysis |-> analysis, analyzed_at |-> t])]
    ELSE store

\* lines 484-490: the write-back and the 200 response
AnalyzeWrite(p) ==
    /\ pc[p] = "write"
    /\ store' = IF local[p].run_id # NoRunId
                THEN WriteBack(local[p].run_id, local[p].analysis, now)
                ELSE store
    /\ Finish(p, Response("analyze", local[p].req, 200,
                          [success |-> TRUE, analysis |-> local[p].analysis]))
    /\ UNCHANGED <<nextId, now, apiKey>>

(***************************************************************************)
(* Requests of the store model                                              *)
(***************************************************************************)
\* a run identifier that is no 24-hex-digit string
MalformedId == -1

\* an Event-format submission without records
SubEmpty == [robot_id |-> "Alpha", run_number |-> 1, logs |-> <<>>]

\* an Event-format submission that also carries segments
SubEvent ==
    [robot_id |-> "Alpha", run_number |-> 2,
     logs |-> <<[event |-> 1, data |-> 0, timestamp |-> 0],
                [event |-> 2, data |-> 1, timestamp |-> 5],
                [event |-> 5, data |-> 0, timestamp |-> 9]>>,
     segments |-> <<[segment_index |-> 0, start_pos |-> <<0, 0>>, end_pos |-> <<0, -600>>,
                     duration |-> 700]>>,
     metadata |-> [notes |-> "legacy"]]

\* a Sensor-format submission that carries segments and events
SubSensorSeg ==
    [robot_id |-> "Beta", run_number |-> 1,
     logs |-> <<[section_id |-> 1, timestamp |-> 0, checkpoint_success |-> 1,
                 ultrasonic_distance |-> 30, claw_status |-> 0],
                [section_id |-> 2, timestamp |-> 4, checkpoint_success |-> 1,
                 ultrasonic_distance |-> 10, claw_status |-> 120]>>,
     segments |-> <<[segment_id |-> "s1", segment_index |-> 0, start_pos |-> <<0, 0>>,
                     end_pos |-> <<0, -600>>, duration |-> 900, action |-> None],
                    [segment_id |-> "s2", segment_index |-> 1, start_pos |-> <<0, -600>>,
                     end_pos |-> <<150, -1125>>, duration |-> 800, action |-> "pickup_box"]>>,
     events |-> <<[event_type |-> "start", segment_id |-> "s1", pause_duration |-> 0,
                   message |-> "Run Started"],
                  [event_type |-> "pickup_box", segment_id |-> "s2", pause_duration |-> 2000,
                   message |-> "Picking Up Box"]>>]

\* a Path-format submission without segments
SubPathNoSeg ==
    [robot_id |-> "Beta", run_number |-> 2,
     logs |-> <<[x |-> 0, y |-> 0, section_id |-> 1, timestamp |-> 0,
                 segment_id |-> "s1", segment_index |-> 0, checkpoint_success |-> 0,
                 ultrasonic_distance |-> 30, claw_status |-> 0]>>]

\* a Path-format submission with segments
SubPath ==
    Merge(SubPathNoSeg,
          [segments |-> <<[segment_id |-> "s1", segment_index |-> 0, start_pos |-> <<0, 0>>,
                           end_pos |-> <<0, -600>>, duration |-> 900,
                           action |-> "shooting"]>>,
           metadata |-> [duration_ms |-> 900]])

\* bodies POSTed to /ingest: the submissions, an empty body, a body without logs
Submissions ==
    {SubEmpty, SubEvent, SubSensorSeg, SubPathNoSeg, SubPath, <<>>, [robot_id |-> "Alpha"]}

\* identifiers named by requests: stored ones, one never stored, a malformed one
RunIdInputs == (1..(MaxSeqRuns + 1)) \cup {MalformedId}

\* bodies POSTed to /analyze
AnalyzeRequests ==
    {[run_id |-> r] : r \in RunIdInputs}
    \cup {<<>>,
          [logs |-> <<>>],
          [metadata |-> [notes |-> "no logs"]],
          [logs |-> <<[event |-> 1, data |-> 0, timestamp |-> 0]>>],
          [logs |-> <<[event_name |-> "ZoneChange", timestamp_ms |-> 3]>>],
          [logs |-> <<[section_id |-> 1, section_name |-> "Red Path", timestamp_ms |-> 2]>>]}

\* the requests served one at a time
NextSeq ==
    \/ nextId < MaxSeqRuns /\ \E data \in Submissions : ingest_data(data)
    \/ \E run_id \in RunIdInputs : get_run_detail(run_id)
    \/ \E robot_id \in {None, "Alpha"}, skip \in {0, 1} : get_runs(robot_id, skip)
    \/ clear_all_runs
    \/ \E run_id \in RunIdInputs : get_path_for_run(run_id)
    \/ \E data \in AnalyzeRequests : AnalyzeRead(1, data)
    \/ AnalyzeCompute(1)
    \/ \E failure \in TransportFailures : AnalyzeExternalFail(1, failure)
    \/ \E ai_response \in AiResponses : AnalyzeExternal(1, ai_response)
    \/ AnalyzeWrite(1)

SpecSeq == Init /\ [][NextSeq]_vars

\* the requests of the concurrent model: two analyze requests in flight
\* among ingests, reads and clears, while the clock advances
ConcSubmissions == {SubEmpty, SubSensorSeg}

ConcAnalyzeRequests == {[run_id |-> r] : r \in 1..MaxRuns}

Next ==
    \/ Tick
    \/ nextId < MaxRuns /\ \E data \in ConcSubmissions : ingest_data(data)
    \/ \E run_id \in 1..MaxRuns : get_run_detail(run_id)
    \/ get_runs(None, 0)
    \/ clear_all_runs
    \/ \E run_id \in 1..MaxRuns : get_path_for_run(run_id)
    \/ \E p \in Procs, data \in ConcAnalyzeRequests : AnalyzeRead(p, data)
    \/ \E p \in Procs : AnalyzeCompute(p)
    \/ \E p \in Procs, failure \in TransportFailures : AnalyzeExternalFail(p, failure)
    \/ \E p \in Procs, ai_response \in AiResponses : AnalyzeExternal(p, ai_response)
    \/ \E p \in Procs : AnalyzeWrite(p)

Spec == Init /\ [][Next]_vars

(***************************************************************************)
(* Ingest-then-analyse models over generated submissions: one run is       *)
(* ingested and analysed without a credential                               *)
(***************************************************************************)
\* all sequences of at most n records drawn from recs
SeqsUpTo(recs, n) == UNION {[1..k -> recs] : k \in 0..n}

InitMock == Init /\ apiKey = FALSE

\* the analyse-one-run pipeline shared by the models below
AnalyzeStored ==
    \/ AnalyzeRead(1, [run_id |-> 1])
    \/ AnalyzeCompute(1)
    \/ AnalyzeWrite(1)

\* Event-format submissions over two zones, ZoneChange and Shot records
OscRecords ==
    {[event |-> 2, data |-> 1, timestamp |-> 0],
     [event |-> 2, data |-> 2, timestamp |-> 0],
     [event |-> 3, data |-> 1, timestamp |-> 0]}

OscSubmissions == {[logs |-> l] : l \in SeqsUpTo(OscRecords, MaxOscLen)}

NextOsc ==
    \/ nextId < 1 /\ \E data \in OscSubmissions : ingest_data(data)
    \/ AnalyzeStored

SpecOsc == InitMock /\ [][NextOsc]_vars

\* Sensor-format submissions: sections 1 (Red Path), 0 and 5 (both Unknown),
\* timestamps in any order
SensorRecords ==
    {[section_id |-> sec, timestamp |-> t] : sec \in {0, 1, 5}, t \in 0..MaxStamp}

\* the same record as a Path-format record
WithPosition(log) == Merge(log, [x |-> 0, y |-> 0])

\* the same submission in Path format
AsPath(data) == [logs |-> [i \in 1..Len(data.logs) |-> WithPosition(data.logs[i])]]

SensorSubmissions == {[logs |-> l] : l \in SeqsUpTo(SensorRecords, MaxSensorLen)}

\* each sequence is submitted once in Sensor and once in Path format
NextSection ==
    \/ nextId < 1 /\ \E data \in SensorSubmissions, position \in BOOLEAN :
                         ingest_data(IF position THEN AsPath(data) ELSE data)
    \/ AnalyzeStored

SpecSection == InitMock /\ [][NextSection]_vars

\* submissions whose records carry any subset of the fields the format
\* detection looks at
DetectFields == {"x", "y", "section_id", "event"}

DetectRecords == {[f \in fs |-> 1] : fs \in SUBSET DetectFields}

DetectSubmissions == {[logs |-> l] : l \in SeqsUpTo(DetectRecords, MaxDetectLen)}

NextDetect ==
    \/ nextId < 1 /\ \E data \in DetectSubmissions : ingest_data(data)
    \/ get_run_detail(1)

SpecDetect == Init /\ [][NextDetect]_vars

\* one-record submissions carrying each code of 0..MaxCode in each format
LookupSubmissions ==
    {[logs |-> <<[event |-> c, data |-> 0, timestamp |-> 0]>>] : c \in 0..MaxCode}
    \cup {[logs |-> <<[event |-> 0, data |-> c, timestamp |-> 0]>>] : c \in 0..MaxCode}
    \cup {[logs |-> <<[section_id |-> c, timestamp |-> 0]>>] : c \in 0..MaxCode}
    \cup {[logs |-> <<[x |-> 0, y |-> 0, section_id |-> c]>>] : c \in 0..MaxCode}

NextLookup ==
    \/ nextId < 1 /\ \E data \in LookupSubmissions : ingest_data(data)
    \/ get_run_detail(1)

SpecLookup == Init /\ [][NextLookup]_vars

\* submissions whose records carry a timestamp and the fields of one of the
\* three formats, in any order and with repetitions
FetchRecords ==
    {[event |-> 2, data |-> 1, timestamp |-> t] : t \in 0..MaxStamp}
    \cup {[section_id |-> 1, timestamp |-> t] : t \in 0..MaxStamp}
    \cup {[x |-> t, y |-> 0, section_id |-> 2, timestamp |-> t] : t \in 0..MaxStamp}

FetchSubmissions == {[logs |-> l] : l \in SeqsUpTo(FetchRecords, MaxSensorLen)}

NextFetch ==
    \/ nextId < 1 /\ \E data \in FetchSubmissions : ingest_data(data)
    \/ \E run_id \in 1..2 : get_run_detail(run_id)

SpecFetch == InitMock /\ [][NextFetch]_vars

\* Sensor-format runs whose i-th record has timestamp i and an ultrasonic
\* reading around the threshold of 15, or none (NoReading)
NoReading == -1

Readings == {10, 14, 15, 20, NoReading}

ObstacleRecord(i, reading) ==
    IF reading = NoReading THEN [section_id |-> 1, timestamp |-> i]
    ELSE [section_id |-> 1, timestamp |-> i, ultrasonic_distance |-> reading]

ObstacleSubmissions ==
    {[logs |-> [i \in 1..Len(d) |-> ObstacleRecord(i, d[i])]] :
         d \in SeqsUpTo(Readings, MaxObstacleLen)}

\* each sequence is submitted once in Sensor and once in Path format
NextObstacle ==
    \/ nextId < 1 /\ \E data \in ObstacleSubmissions, position \in BOOLEAN :
                         ingest_data(IF position THEN AsPath(data) ELSE data)
    \/ AnalyzeStored

SpecObstacle == InitMock /\ [][NextObstacle]_vars

\* runs that carry segments with or without an action tag and events with
\* or without a pause, of a start, a known and an unknown type
PauseSegments ==
    {[segment_id |-> id, start_pos |-> <<0, 0>>, end_pos |-> <<0, -600>>,
      duration |-> 900, action |-> a] : id \in {"s1", "s2"}, a \in {None, "drop_box"}}

PauseEvents ==
    {[event_type |-> ty, segment_id |-> id, pause_duration |-> d] :
         ty \in {"start", "shooting", "beep"}, id \in {"s1", "s2"}, d \in {0, 2000}}

PauseSubmissions ==
    {[logs |-> <<>>, segments |-> segs, events |-> evs] :
         segs \in SeqsUpTo(PauseSegments, MaxSegments),
         evs \in SeqsUpTo(PauseEvents, MaxEvents)}

NextPause ==
    \/ nextId < 1 /\ \E data \in PauseSubmissions : ingest_data(data)
    \/ get_path_for_run(1)

SpecPause == Init /\ [][NextPause]_vars

\* the submissions of the format detection, ingested and then analysed
NextStrategy ==
    \/ nextId < 1 /\ \E data \in DetectSubmissions : ingest_data(data)
    \/ AnalyzeStored

SpecStrategy == InitMock /\ [][NextStrategy]_vars

\* Event-format submissions: ZoneChange records of zones 1 (Red Zone), 5 and
\* 9 (both Unknown) and Shot records, timestamps in any order
ZoneRecords ==
    {[event |-> 2, data |-> z, timestamp |-> t] : z \in {1, 5, 9}, t \in 0..MaxStamp}
    \cup {[event |-> 3, data |-> 1, timestamp |-> t] : t \in 0..MaxStamp}

ZoneSubmissions == {[logs |-> l] : l \in SeqsUpTo(ZoneRecords, MaxSensorLen)}

NextZone ==
    \/ nextId < 1 /\ \E data \in ZoneSubmissions : ingest_data(data)
    \/ AnalyzeStored

SpecZone == InitMock /\ [][NextZone]_vars

\* Sensor-format runs around the thresholds of the issue detection: runs
\* over two sections with timestamps around 120000 ms whose checkpoints all
\* succeed or all fail, and runs of checkpoint values 1, 0, 2 or absent
LongStamps == {0, 120000, 120001, 240001}

LongRuns ==
    UNION {SeqsUpTo({[section_id |-> sec, timestamp |-> t, checkpoint_success |-> c] :
                         sec \in {1, 2}, t \in LongStamps}, MaxSensorLen) : c \in {0, 1}}

CheckRecord(c) ==
    IF c = NoReading THEN [section_id |-> 1, timestamp |-> 0]
    ELSE [section_id |-> 1, timestamp |-> 0, checkpoint_success |-> c]

CheckRuns ==
    {[i \in 1..Len(cs) |-> CheckRecord(cs[i])] :
         cs \in SeqsUpTo({1, 0, 2, NoReading}, MaxCheckLen)}

IssueSubmissions == {[logs |-> l] : l \in LongRuns \cup CheckRuns}

NextIssue ==
    \/ nextId < 1 /\ \E data \in IssueSubmissions : ingest_data(data)
    \/ AnalyzeStored

SpecIssue == InitMock /\ [][NextIssue]_vars

(***************************************************************************)
(* Properties                                                               *)
(***************************************************************************)
\* the error kind a response status reports
ErrorKind(status) ==
    CASE status = 400 -> "InvalidInput"
      [] status = 404 -> "NotFound"
      [] status = 502 -> "ExternalServiceError"
      [] status = 500 -> "InternalError"
      [] OTHER -> "none"

\* the response answers an analyze request whose log sequence is empty: a
\* stored run without logs named by run_id, or an empty inline logs list
AnalyzedEmptyRun ==
    /\ resp.op = "analyze"
    /\ \/ /\ Has(resp.req, "run_id")
          /\ resp.req.run_id \in DOMAIN store
          /\ store[resp.req.run_id].logs = <<>>
       \/ /\ ~Has(resp.req, "run_id")
          /\ Has(resp.req, "logs")
          /\ resp.req.logs = <<>>

\* C1: analysing a run whose log sequence is empty (by run_id or inline)
\* returns a successful result with empty timeline, section_sequence and
\* issues and zero-valued metrics, never an error outcome.
C1_EmptyRunAnalysisSucceeds ==
    AnalyzedEmptyRun =>
        /\ resp.status = 200
        /\ Has(resp.body, "analysis")
        /\ resp.body.analysis.timeline = <<>>
        /\ resp.body.analysis.section_sequence = <<>>
        /\ resp.body.analysis.issues = <<>>
        /\ resp.body.analysis.section_times = <<>>

\* the response is the successful analysis of stored run 1
AnalyzedRun1 ==
    /\ resp.op = "analyze"
    /\ resp.status = 200
    /\ Has(resp.req, "run_id")
    /\ resp.req.run_id = 1
    /\ 1 \in DOMAIN store

\* the zone ids of the ZoneChange (event code 2) records of stored run 1
RECURSIVE ZoneIds(_)
ZoneIds(logs) ==
    IF logs = <<>> THEN <<>>
    ELSE (IF logs[1].event_code = 2 THEN <<logs[1].zone_id>> ELSE <<>>) \o ZoneIds(Tail(logs))

\* the zone sequence a, b, a, b, ... of length n
Alternating(a, b, n) == [i \in 1..n |-> IF i % 2 = 1 THEN a ELSE b]

\* number of positions i >= 2 (0-based) with zs[i] = zs[i-2] and zs[i] # zs[i-1]
PatternCount(zs) ==
    Cardinality({i \in 1..Len(zs) : i >= 3 /\ zs[i] = zs[i - 2] /\ zs[i] # zs[i - 1]})

OscillationIssues(analysis) ==
    SelectSeq(analysis.issues, LAMBDA x : x.kind = "Oscillation detected")

\* C2 as stated: for the zone sequence A,B,A,B,A no "Oscillation detected"
\* issue is emitted (count 2), and for A,B,A,B,A,B,A the issue is emitted
\* with count 4.
C2_CountsAsStated ==
    AnalyzedRun1 =>
        \A a, b \in {1, 2} : a # b =>
            /\ ZoneIds(store[1].logs) = Alternating(a, b, 5)
                   => OscillationIssues(resp.body.analysis) = <<>>
            /\ ZoneIds(store[1].logs) = Alternating(a, b, 7)
                   => /\ Len(OscillationIssues(resp.body.analysis)) = 1
                      /\ OscillationIssues(resp.body.analysis)[1].num = 4

\* C2 (amended): the oscillation count is the number of indices i >= 2 with
\* sequence[i] = sequence[i-2] and sequence[i] # sequence[i-1]; the issue
\* is emitted, once and with that count, exactly when the count exceeds 2;
\* so A,B,A,B,A counts 3 and A,B,A,B,A,B,A counts 5, and both emit it.
C2_OscillationCount ==
    AnalyzedRun1 =>
        LET zs == ZoneIds(store[1].logs)
            found == OscillationIssues(resp.body.analysis)
        IN  /\ Len(resp.body.analysis.section_sequence) = Len(zs)
            /\ (found # <<>>) <=> (PatternCount(zs) > 2)
            /\ found # <<>> => Len(found) = 1 /\ found[1].num = PatternCount(zs)
            /\ \A a, b \in {1, 2} : a # b =>
                  /\ zs = Alternating(a, b, 5) => found # <<>> /\ found[1].num = 3
                  /\ zs = Alternating(a, b, 7) => found # <<>> /\ found[1].num = 5

\* an analysed run whose zone sequence is A,B,A,B,A
C2_Witness ==
    /\ AnalyzedRun1
    /\ ZoneIds(store[1].logs) = Alternating(1, 2, 5)
    /\ OscillationIssues(resp.body.analysis) # <<>>

\* the response is the answer to a path query naming a stored run
PathAnswered ==
    /\ resp.op = "get_path_for_run"
    /\ resp.status = 200
    /\ resp.req \in DOMAIN store

\* C3 as stated: the path query returns the fixed 22-segment default path
\* whenever the run has no stored segments or its format is not Path, also
\* for a Sensor- or Event-format run that carries segments.
C3_DefaultUnlessPathFormat ==
    PathAnswered =>
        LET run == store[resp.req] IN
        (run.segments = <<>> \/ run.data_format # "path")
            => resp.body = [segments |-> get_default_segments]

\* C3 (amended): the path query returns the fixed 22-segment default path
\* exactly when the run has no stored segments, whatever its format; a run
\* of any format that carries segments gets one segment per stored segment,
\* built from the stored id, positions and duration.
C3_DefaultIffNoSegments ==
    PathAnswered =>
        LET run == store[resp.req] IN
        /\ run.segments = <<>> =>
              /\ resp.body = [segments |-> get_default_segments]
              /\ Len(resp.body.segments) = 22
        /\ run.segments # <<>> =>
              /\ Len(resp.body.segments) = Len(run.segments)
              /\ \A i \in 1..Len(run.segments) :
                    /\ Has(run.segments[i], "segment_id")
                           => resp.body.segments[i].id = run.segments[i].segment_id
                    /\ resp.body.segments[i].points
                           = <<run.segments[i].start_pos, run.segments[i].end_pos>>
                    /\ resp.body.segments[i].duration = run.segments[i].duration
              /\ resp.body.events = run.events

\* a Sensor-format run with stored segments answered with its own segments
C3_Witness ==
    /\ PathAnswered
    /\ store[resp.req].data_format = "sensor"
    /\ store[resp.req].segments # <<>>
    /\ resp.body.segments # get_default_segments

\* the response answers a request that names the malformed run identifier
NamedMalformedId ==
    \/ resp.op \in {"get_run_detail", "get_path_for_run"} /\ resp.req = MalformedId
    \/ resp.op = "analyze" /\ Has(resp.req, "run_id") /\ resp.req.run_id = MalformedId

\* C4: a request naming a malformed run identifier is reported with the
\* InvalidInput kind, not InternalError and not NotFound.
C4_MalformedIdIsInvalidInput ==
    NamedMalformedId => ErrorKind(resp.status) = "InvalidInput"

\* C6: with a credential configured, a transport-level failure of the model
\* call (timeout, no connection, HTTP error status) makes analyze_run return
\* the ExternalServiceError outcome, distinct from InvalidInput, NotFound
\* and InternalError, carrying no analysis and storing none; no response
\* under a configured credential is the mock analysis.
C6_TransportFailureReported ==
    [][/\ \A p \in Procs, failure \in TransportFailures :
              AnalyzeExternalFail(p, failure) =>
                  /\ apiKey
                  /\ resp'.op = "analyze"
                  /\ ErrorKind(resp'.status) = "ExternalServiceError"
                  /\ resp'.status \notin {200, 400, 404, 500}
                  /\ ~Has(resp'.body, "analysis")
                  /\ store' = store
       /\ (apiKey /\ resp'.op = "analyze" /\ resp'.status = 200)
              => ~Has(resp'.body.analysis, "score")
      ]_vars

\* the model call of an analysis has just failed at transport level
C6_Witness ==
    /\ apiKey
    /\ resp.op = "analyze"
    /\ resp.status = 502
    /\ resp.body.error[2] = "Timeout"

\* the fields of a run document written at ingestion and never again
IngestedFields ==
    {"robot_id", "run_number", "logs", "events", "segments", "metadata",
     "data_format", "created_at"}

\* the step is the write-back of an analyze invocation of p naming run r
WriteBackStep(p, r) ==
    /\ pc[p] = "write"
    /\ pc'[p] = "idle"
    /\ local[p].run_id = r
    /\ resp'.op = "analyze"
    /\ resp'.status = 200

C8_LastWriteWins ==
    [][/\ \A p, q \in Procs :
             (p # q /\ pc[p] # "idle" /\ pc[q] # "idle"
                /\ local[p].run_id # NoRunId /\ local[p].run_id = local[q].run_id)
             => /\ local[p].logs = local[q].logs
                /\ local[p].run_id \in DOMAIN store
                       => store[local[p].run_id].logs = local[p].logs
                /\ pc[p] \in {"compute", "external", "write"}
                /\ pc[p] = "external" => apiKey
       /\ \A p \in Procs :
             (pc[p] = "write" /\ pc'[p] = "idle") =>
                 /\ resp'.status = 200
                 /\ resp'.body.analysis = local[p].analysis
                 /\ \A k \in {"timeline", "section_sequence", "section_times", "issues"} :
                        resp'.body.analysis[k] = base_analysis(local[p].logs)[k]
                 /\ local[p].run_id \in DOMAIN store =>
                        /\ store'[local[p].run_id].analyzed
                        /\ store'[local[p].run_id].analysis = local[p].analysis
                 /\ \A q \in Procs \ {p} : pc'[q] = pc[q] /\ local'[q] = local[q]
      ]_vars

\* the first of two requests on the same run has written its analysis and
\* the second is about to overwrite it with a different one
C8_Witness ==
    /\ resp.op = "analyze"
    /\ resp.status = 200
    /\ Has(resp.req, "run_id")
    /\ resp.req.run_id \in DOMAIN store
    /\ store[resp.req.run_id].analysis = resp.body.analysis
    /\ \E q \in Procs :
           /\ pc[q] = "write"
           /\ local[q].run_id = resp.req.run_id
           /\ local[q].analysis # resp.body.analysis

\* C5: in the Sensor/Path strategy, for every non-empty normalised log
\* sequence (timestamps in any order, sections revisited or not) the sum of
\* all section_times values is the last record's timestamp_ms minus the
\* first record's.
C5_SectionTimeConservation ==
    (AnalyzedRun1 /\ store[1].data_format \in {"sensor", "path"}) =>
        LET logs == store[1].logs IN
        DictSum(resp.body.analysis.section_times)
            = logs[Len(logs)].timestamp_ms - logs[1].timestamp_ms

\* an analysed Path run that revisits a section, with timestamps out of order
C5_Witness ==
    /\ AnalyzedRun1
    /\ store[1].data_format = "path"
    /\ Len(store[1].logs) = 3
    /\ store[1].logs[1].section_name = store[1].logs[3].section_name
    /\ store[1].logs[1].section_name # store[1].logs[2].section_name
    /\ store[1].logs[1].timestamp_ms > store[1].logs[2].timestamp_ms
    /\ store[1].logs[3].timestamp_ms > store[1].logs[2].timestamp_ms
    /\ Len(resp.body.analysis.section_times) = 2

\* the format the detection rules give to a first record with these fields
FormatOfFields(fields) ==
    IF {"x", "y"} \subseteq fields THEN "path"
    ELSE IF "section_id" \in fields THEN "sensor"
    ELSE "event"

\* the keys of a normalised record of each format
FieldsOfFormat(format) ==
    CASE format = "path" ->
            {"x", "y", "segment_id", "segment_index", "section_id", "section_name",
             "timestamp_ms", "checkpoint_success", "ultrasonic_distance", "claw_status"}
      [] format = "sensor" ->
            {"section_id", "section_name", "timestamp_ms", "checkpoint_success",
             "ultrasonic_distance", "claw_status", "raw"}
      [] format = "event" ->
            {"event_code", "event_name", "zone_id", "zone_name", "timestamp_ms", "raw"}

\* the response acknowledges the ingestion of a run that is still stored
JustIngested ==
    /\ resp.op = "ingest"
    /\ resp.status = 201
    /\ resp.body.run_id \in DOMAIN store

\* C9: the format assigned at ingestion is a function of the field set of
\* the first raw record only (Path if it has x and y, else Sensor if it has
\* section_id, else Event; Event for an empty sequence), whatever the later
\* records are, and every record is normalised in that one format.
C9_FormatFromFirstRecord ==
    JustIngested =>
        LET raw == resp.req.logs
            run == store[resp.body.run_id]
            expected == IF raw = <<>> THEN "event" ELSE FormatOfFields(DOMAIN raw[1])
        IN  /\ run.data_format = expected
            /\ Len(run.logs) = Len(raw)
            /\ \A i \in 1..Len(raw) : DOMAIN run.logs[i] = FieldsOfFormat(expected)

\* a submission whose first record is an Event record and whose second is a
\* Path record, ingested as Event
C9_Witness ==
    /\ JustIngested
    /\ Len(resp.req.logs) = 2
    /\ DOMAIN resp.req.logs[1] = {"event"}
    /\ DOMAIN resp.req.logs[2] = {"x", "y", "section_id"}
    /\ store[resp.body.run_id].data_format = "event"
    /\ Has(store[resp.body.run_id].logs[2], "event_name")

\* the names the lookup tables give
NameOfEventCode(c) ==
    IF c \in 1..6 THEN <<"Start", "ZoneChange", "Shot", "Obstacle", "Stop", "Error">>[c]
    ELSE "Unknown"

NameOfZoneId(z) ==
    IF z \in 0..5
    THEN <<"Start", "Red Zone", "Blue Zone", "Green Zone", "Center", "Unknown">>[z + 1]
    ELSE "Unknown"

NameOfSectionId(n) ==
    IF n \in 1..3 THEN <<"Red Path", "Ramp", "Green Path">>[n] ELSE "Unknown"

\* C10: for every event code, zone id and section id of 0..255 the
\* ingestion succeeds and the normalised record carries the name of the
\* tables: codes 1..6, zones 0..5, sections 1..3, "Unknown" otherwise.
C10_LookupTotal ==
    resp.op = "ingest" =>
        /\ resp.status = 201
        /\ LET raw == resp.req.logs[1]
               rec == store[resp.body.run_id].logs[1]
           IN  /\ Has(raw, "event") =>
                      /\ rec.event_code = raw.event
                      /\ rec.event_name = NameOfEventCode(raw.event)
                      /\ rec.zone_id = raw.data
                      /\ rec.zone_name = NameOfZoneId(raw.data)
               /\ Has(raw, "section_id") =>
                      /\ rec.section_id = raw.section_id
                      /\ rec.section_name = NameOfSectionId(raw.section_id)

\* the event code 200, outside the table, was ingested as "Unknown"
C10_Witness ==
    /\ JustIngested
    /\ Has(resp.req.logs[1], "event")
    /\ resp.req.logs[1].event = 200
    /\ store[resp.body.run_id].logs[1].event_name = "Unknown"

\* the normalised record rec carries the values of the raw record raw under
\* the field names of the format
DerivedFrom(rec, raw, format) ==
    /\ rec.timestamp_ms = Get(raw, "timestamp", 0)
    /\ format = "event" =>
           /\ rec.raw = raw
           /\ rec.event_code = Get(raw, "event", 0)
           /\ rec.zone_id = Get(raw, "data", 0)
    /\ format = "sensor" =>
           /\ rec.raw = raw
           /\ rec.section_id = Get(raw, "section_id", 0)
    /\ format = "path" =>
           /\ rec.x = Get(raw, "x", 0)
           /\ rec.y = Get(raw, "y", 0)
           /\ rec.section_id = Get(raw, "section_id", 0)

\* C11: ingesting a run stores, and fetching it by id returns, a normalised
\* log sequence with exactly as many records as the raw sequence submitted,
\* the i-th normalised record derived from the i-th raw record (nothing
\* reordered, dropped or deduplicated), in every format.
C11_FetchReturnsRecordPerRaw ==
    [][/\ (resp'.op = "ingest" /\ resp'.status = 201) =>
             LET raw == resp'.req.logs
                 run == store'[resp'.body.run_id]
             IN  /\ resp'.body.run_id \notin DOMAIN store
                 /\ resp'.body.logs_count = Len(raw)
                 /\ Len(run.logs) = Len(raw)
                 /\ \A i \in 1..Len(raw) : DerivedFrom(run.logs[i], raw[i], run.data_format)
       /\ (resp'.op = "get_run_detail" /\ resp'.status = 200) =>
             /\ store' = store
             /\ resp'.body.logs = store[resp'.req].logs
             /\ resp'.body._id = resp'.req
       /\ \A r \in DOMAIN store \cap DOMAIN store' : store'[r].logs = store[r].logs
      ]_vars

\* a fetched Path run of three records: the first and third equal, the
\* second with a smaller timestamp
C11_Witness ==
    /\ resp.op = "get_run_detail"
    /\ resp.status = 200
    /\ resp.body.data_format = "path"
    /\ Len(resp.body.logs) = 3
    /\ resp.body.logs[1] = resp.body.logs[3]
    /\ resp.body.logs[2].timestamp_ms < resp.body.logs[1].timestamp_ms

\* the "Obstacle detected" entries of a timeline, in timeline order
ObstacleEntries(analysis) ==
    SelectSeq(analysis.timeline, LAMBDA e : e.event = "Obstacle detected")

\* the ultrasonic readings of normalised records
ReadingsOf(logs) == [i \in 1..Len(logs) |-> logs[i].ultrasonic_distance]

\* the record indices at which the readings drop below 15
DropIndices(r) == {i \in 1..Len(r) : r[i] < 15 /\ (i = 1 \/ r[i - 1] >= 15)}

\* C12: in the Sensor/Path strategy an "Obstacle detected" entry is emitted
\* at record i exactly when its ultrasonic distance is below 15 and i is
\* the first record or record i-1's distance is at least 15; consecutive
\* readings below 15 give a single entry, and the readings 20,20,10,10,20
\* give exactly one entry, at the third record.
C12_ObstacleOnDrop ==
    (AnalyzedRun1 /\ store[1].data_format \in {"sensor", "path"}) =>
        LET r == ReadingsOf(store[1].logs)
            found == ObstacleEntries(resp.body.analysis)
        IN  /\ Len(found) = Cardinality(DropIndices(r))
            /\ \A i \in DropIndices(r) :
                   \E k \in 1..Len(found) : found[k].time_ms = i /\ found[k].cm = r[i]
            /\ \A k \in 1..Len(found) : found[k].time_ms \in DropIndices(r)
            /\ \A k \in 1..(Len(found) - 1) : found[k + 1].time_ms > found[k].time_ms + 1
            /\ r = <<20, 20, 10, 10, 20>> => Len(found) = 1 /\ found[1].time_ms = 3

\* the analysed run with the readings 20,20,10,10,20
C12_Witness ==
    /\ AnalyzedRun1
    /\ store[1].data_format = "path"
    /\ ReadingsOf(store[1].logs) = <<20, 20, 10, 10, 20>>
    /\ Len(ObstacleEntries(resp.body.analysis)) = 1

\* C13: with no credential configured, no external call is made and every
\* analyze invocation that completes returns score 0, the summary saying
\* that the credential is not configured, and the timeline,
\* section_sequence, section_times and issues computed from its logs; the
\* returned analysis is the same as that of any other invocation on equal
\* logs, whether still in flight or already stored, whatever the store and
\* the clock were when each ran.
C13_MockDeterministic ==
    [][~apiKey =>
          /\ \A p \in Procs : pc'[p] # "external"
          /\ \A p \in Procs :
                (pc[p] = "write" /\ pc'[p] = "idle") =>
                    /\ resp'.status = 200
                    /\ resp'.body.analysis.score = 0
                    /\ resp'.body.analysis.summary
                           = "OPENROUTER_API_KEY not configured. This is a mock analysis."
                    /\ \A k \in {"timeline", "section_sequence", "section_times", "issues"} :
                           resp'.body.analysis[k] = base_analysis(local[p].logs)[k]
                    /\ \A q \in Procs \ {p} :
                           (pc[q] = "write" /\ local[q].logs = local[p].logs)
                               => local[q].analysis = resp'.body.analysis
                    /\ \A r \in DOMAIN store :
                           (store[r].analyzed /\ store[r].logs = local[p].logs)
                               => store[r].analysis = resp'.body.analysis
      ]_vars

\* without a credential, an analysis was returned and stored at a time after
\* the run's ingestion while a second request on the same run, which read
\* the run before that write, holds the same analysis
C13_Witness ==
    /\ ~apiKey
    /\ resp.op = "analyze"
    /\ resp.status = 200
    /\ Has(resp.req, "run_id")
    /\ resp.req.run_id \in DOMAIN store
    /\ store[resp.req.run_id].analyzed_at > store[resp.req.run_id].created_at
    /\ resp.body.analysis.score = 0
    /\ \E q \in Procs :
           /\ pc[q] = "write"
           /\ local[q].run_id = resp.req.run_id
           /\ local[q].analysis = resp.body.analysis

\* the ids of the default path, in order
DefaultIds ==
    <<"s1", "s2", "s3", "s4", "s5", "s6", "s7", "s8", "s9", "s10", "s11",
      "s12", "s13", "s14", "s15", "s16", "s17", "s18", "s19", "s20", "s21", "s22">>

\* C14: for a stored run with an empty segments list the path query returns
\* the fixed default list of 22 segments with ids s1..s22 in that order,
\* never an empty list, both when the run's format is not Path and when it
\* is Path but no segments were stored.
C14_EmptySegmentsGiveDefault ==
    (PathAnswered /\ store[resp.req].segments = <<>>) =>
        /\ DOMAIN resp.body = {"segments"}
        /\ resp.body.segments # <<>>
        /\ Len(resp.body.segments) = 22
        /\ \A i \in 1..22 :
               /\ resp.body.segments[i].id = DefaultIds[i]
               /\ resp.body.segments[i] = get_default_segments[i]

\* a Path-format run stored without segments, answered with the default path
C14_Witness ==
    /\ PathAnswered
    /\ store[resp.req].data_format = "path"
    /\ store[resp.req].segments = <<>>
    /\ store[resp.req].logs # <<>>
    /\ Len(resp.body.segments) = 22

\* the events of a run that match the segment id sid, start and end excluded
MatchingEvents(events, sid) ==
    SelectSeq(events, LAMBDA e : e.segment_id = sid /\ e.event_type \notin {"start", "end"})

\* the emoji and message of the action table for the tags the runs use
TableText(tag) ==
    CASE tag = "shooting" -> <<"soccer", "Shooting Ball">>
      [] tag = "drop_box" -> <<"package", "Dropping Box">>
      [] OTHER -> <<>>

HasPause(segment) == Has(segment, "pause_duration") \/ Has(segment, "pause_message")

\* the segment out carries the pause annotation of the event
PauseFromEvent(out, event) ==
    /\ DOMAIN out = {"id", "points", "duration", "pause_duration", "pause_message"}
    /\ out.pause_duration = event.pause_duration
    /\ out.pause_message = TableText(event.event_type)

\* the segment out carries the annotation synthesized from the action tag
PauseFromAction(out, action) ==
    /\ DOMAIN out = {"id", "points", "duration", "pause_duration", "pause_message"}
    /\ out.pause_duration = 1500
    /\ out.pause_message = TableText(action)

\* the path query answered with the segments generated from stored run 1
GeneratedPath ==
    /\ PathAnswered
    /\ resp.req = 1
    /\ store[1].segments # <<>>
    /\ Len(resp.body.segments) = Len(store[1].segments)

\* C15 as stated: a segment gets the pause annotation of its matching event
\* (matched by segment id, start and end events excluded) when that event
\* has a positive pause duration; in every other case where the segment
\* carries an action tag, also when a matching event with pause duration
\* zero exists, it gets a synthesized annotation of 1500 ms; a segment with
\* neither gets no pause fields.
C15_ActionTagWheneverNoPause ==
    GeneratedPath =>
        \A i \in 1..Len(store[1].segments) :
            LET seg == store[1].segments[i]
                out == resp.body.segments[i]
                m == MatchingEvents(store[1].events, seg.segment_id)
            IN  IF m # <<>> /\ m[Len(m)].pause_duration > 0
                THEN PauseFromEvent(out, m[Len(m)])
                ELSE IF seg.action # None
                THEN PauseFromAction(out, seg.action)
                ELSE ~HasPause(out)

\* C15 (amended): a segment gets the pause annotation of its matching event
\* (the last one listed, matched by segment id, start and end events
\* excluded) when that event has a positive pause duration; when a matching
\* event exists but its pause duration is not positive the segment gets no
\* pause fields, action tag or not; only when no matching event exists and
\* the segment carries an action tag it gets a synthesized annotation of
\* 1500 ms; a segment with neither gets no pause fields.
C15_ActionTagOnlyWithoutEvent ==
    GeneratedPath =>
        \A i \in 1..Len(store[1].segments) :
            LET seg == store[1].segments[i]
                out == resp.body.segments[i]
                m == MatchingEvents(store[1].events, seg.segment_id)
            IN  /\ out.id = seg.segment_id
                /\ IF m # <<>>
                   THEN IF m[Len(m)].pause_duration > 0
                        THEN PauseFromEvent(out, m[Len(m)])
                        ELSE ~HasPause(out)
                   ELSE IF seg.action # None
                        THEN PauseFromAction(out, seg.action)
                        ELSE ~HasPause(out)

\* a segment with an action tag and a matching event of pause duration zero,
\* returned without pause fields
C15_Witness ==
    /\ GeneratedPath
    /\ store[1].segments[1].action = "drop_box"
    /\ MatchingEvents(store[1].events, store[1].segments[1].segment_id) # <<>>
    /\ \A e \in {store[1].events[k] : k \in 1..Len(store[1].events)} : e.pause_duration = 0
    /\ ~HasPause(resp.body.segments[1])

\* the analysis is the one the Sensor/Path strategy builds: it carries the
\* sensor metrics and the milestones of the timeline
BySensorStrategy(analysis) ==
    /\ Has(analysis, "checkpoint_rate")
    /\ Has(analysis, "ultrasonic_avg")
    /\ analysis.timeline # <<>>
    /\ analysis.timeline[1].event = "Run started"

\* the analysis is the one the Event strategy builds: no sensor metrics, no
\* timeline
ByEventStrategy(analysis) ==
    /\ ~Has(analysis, "checkpoint_rate")
    /\ ~Has(analysis, "ultrasonic_avg")
    /\ analysis.timeline = <<>>

\* C16: for every stored run with at least one log record the analysis of
\* the run succeeds with the strategy of the format recorded at ingestion:
\* the Sensor/Path strategy if and only if the stored format is Sensor or
\* Path, the Event strategy if and only if it is Event.
C16_StrategyMatchesStoredFormat ==
    (resp.op = "analyze" /\ 1 \in DOMAIN store /\ store[1].logs # <<>>) =>
        /\ resp.status = 200
        /\ BySensorStrategy(resp.body.analysis) <=> store[1].data_format \in {"sensor", "path"}
        /\ ByEventStrategy(resp.body.analysis) <=> store[1].data_format = "event"

\* an analysed Path run whose raw records carry x and y but no section_id
C16_Witness ==
    /\ AnalyzedRun1
    /\ store[1].data_format = "path"
    /\ Len(store[1].logs) = 2
    /\ store[1].logs[1].section_id = 0
    /\ BySensorStrategy(resp.body.analysis)

\* the entries of a timeline at time t, in timeline order
EntriesAt(tl, t) == SelectSeq(tl, LAMBDA e : e.time_ms = t)

\* the entries of a timeline with the given event text
EntriesOf(tl, event) == SelectSeq(tl, LAMBDA e : e.event = event)

\* the timestamps of the records never decrease and none is negative
Chronological(logs) ==
    /\ \A i \in 1..Len(logs) : logs[i].timestamp_ms >= 0
    /\ \A i \in 1..(Len(logs) - 1) : logs[i].timestamp_ms <= logs[i + 1].timestamp_ms

\* C17: in the Sensor/Path strategy with at least one record the returned
\* timeline is non-decreasing in time_ms, entries of equal time stay in the
\* order they were inserted in, there is exactly one "Run started" entry,
\* at time 0, and exactly one "Run completed" entry, at the last record's
\* timestamp; when the timestamps are non-negative and non-decreasing,
\* "Run started" is the first entry and "Run completed" the last.
C17_TimelineStableSorted ==
    (AnalyzedRun1 /\ store[1].data_format \in {"sensor", "path"}) =>
        LET logs == store[1].logs
            tl == resp.body.analysis.timeline
            inserted == Milestones(logs, SensorScan(logs, 1, SensorInit).timeline)
        IN  /\ \A k \in 1..(Len(tl) - 1) : tl[k].time_ms <= tl[k + 1].time_ms
            /\ Len(tl) = Len(inserted)
            /\ \A k \in 1..Len(inserted) :
                   EntriesAt(tl, inserted[k].time_ms) = EntriesAt(inserted, inserted[k].time_ms)
            /\ Len(EntriesOf(tl, "Run started")) = 1
            /\ EntriesOf(tl, "Run started")[1].time_ms = 0
            /\ Len(EntriesOf(tl, "Run completed")) = 1
            /\ EntriesOf(tl, "Run completed")[1].time_ms = logs[Len(logs)].timestamp_ms
            /\ Chronological(logs) =>
                   /\ tl[1].event = "Run started"
                   /\ tl[Len(tl)].event = "Run completed"

\* an analysed run whose timestamps decrease: a section entry and the
\* "Run completed" entry of equal time stay in insertion order, and a later
\* section entry follows them
C17_Witness ==
    /\ AnalyzedRun1
    /\ store[1].data_format = "sensor"
    /\ LET tl == resp.body.analysis.timeline
       IN  /\ Len(tl) = 5
           /\ tl[1].event = "Run started"
           /\ tl[2].event = "Obstacle detected"
           /\ tl[3].event = "Entered"
           /\ tl[4].event = "Run completed"
           /\ tl[3].time_ms = tl[4].time_ms
           /\ tl[5].event = "Entered"

\* the zone names of the ZoneChange (event code 2) records, in order
RECURSIVE ZoneNamesOf(_)
ZoneNamesOf(logs) ==
    IF logs = <<>> THEN <<>>
    ELSE (IF logs[1].event_code = 2 THEN <<NameOfZoneId(logs[1].zone_id)>> ELSE <<>>)
         \o ZoneNamesOf(Tail(logs))

\* the sum, over the ZoneChange records from index i on whose zone name is
\* z, of the next record's timestamp minus the record's own (0 for a last
\* record)
RECURSIVE ZoneTime(_, _, _)
ZoneTime(logs, z, i) ==
    IF i > Len(logs) THEN 0
    ELSE (IF logs[i].event_code = 2 /\ NameOfZoneId(logs[i].zone_id) = z
          THEN (IF i < Len(logs) THEN logs[i + 1].timestamp_ms - logs[i].timestamp_ms ELSE 0)
          ELSE 0) + ZoneTime(logs, z, i + 1)

\* C18: in the Event strategy section_times[z] is the sum, over every
\* ZoneChange record whose zone name is z, of the timestamp of the record
\* that follows it (of any kind) minus its own, a ZoneChange that is the
\* last record contributing 0; other records contribute no time and add no
\* key; section_sequence is the list of the zone names of the ZoneChange
\* records, in order.
C18_EventSectionTimes ==
    (AnalyzedRun1 /\ store[1].data_format = "event") =>
        LET logs == store[1].logs
            st == resp.body.analysis.section_times
            names == ZoneNamesOf(logs)
        IN  /\ resp.body.analysis.section_sequence = names
            /\ {st[k].k : k \in 1..Len(st)} = {names[k] : k \in 1..Len(names)}
            /\ Len(st) = Cardinality({names[k] : k \in 1..Len(names)})
            /\ \A k \in 1..Len(st) : st[k].v = ZoneTime(logs, st[k].k, 1)

\* an analysed run with two ZoneChange records of zones 5 and 9, both named
\* Unknown, followed by a Shot record: one key holding both times
C18_Witness ==
    /\ AnalyzedRun1
    /\ store[1].data_format = "event"
    /\ Len(store[1].logs) = 3
    /\ store[1].logs[1].event_code = 2 /\ store[1].logs[1].zone_id = 5
    /\ store[1].logs[2].event_code = 2 /\ store[1].logs[2].zone_id = 9
    /\ store[1].logs[3].event_code = 3
    /\ store[1].logs[1].timestamp_ms < store[1].logs[2].timestamp_ms
    /\ store[1].logs[2].timestamp_ms < store[1].logs[3].timestamp_ms
    /\ Len(resp.body.analysis.section_times) = 1
    /\ resp.body.analysis.section_times[1].v
           = store[1].logs[3].timestamp_ms - store[1].logs[1].timestamp_ms

\* the sections of a section_times dict whose time exceeds limit
SectionsAbove(section_times, limit) ==
    {section_times[k].k : k \in {j \in 1..Len(section_times) : section_times[j].v > limit}}

\* the number of records whose checkpoint_success is 1
Successes(logs) == Cardinality({i \in 1..Len(logs) : logs[i].checkpoint_success = 1})

\* C19: in the Sensor/Path strategy the issues are exactly one "Long time
\* in <section>" entry for each section whose accumulated time is strictly
\* above 120000 ms (none for a section at exactly 120000 ms), followed by
\* one "Low checkpoint success rate" entry if and only if
\* 100 * successes < 60 * (successes + failures), every record whose
\* checkpoint_success is not 1 counting as a failure.
C19_SensorIssues ==
    (AnalyzedRun1 /\ store[1].data_format = "sensor") =>
        LET logs == store[1].logs
            issues == resp.body.analysis.issues
            long == SectionsAbove(resp.body.analysis.section_times, 120000)
            low == 100 * Successes(logs) < 60 * Len(logs)
            n == Cardinality(long)
        IN  /\ Len(issues) = n + (IF low THEN 1 ELSE 0)
            /\ \A k \in 1..n : issues[k].kind = "Long time in"
            /\ {issues[k].subject : k \in 1..n} = long
            /\ low => issues[n + 1].kind = "Low checkpoint success rate"
                       /\ issues[n + 1].num * Len(logs) = 100 * Successes(logs) * issues[n + 1].den

\* an analysed run with one section at exactly 120000 ms, another above it
\* and no checkpoint success: one long-time issue, then the low-rate issue
C19_Witness ==
    /\ AnalyzedRun1
    /\ store[1].data_format = "sensor"
    /\ \E k \in 1..Len(resp.body.analysis.section_times) :
           resp.body.analysis.section_times[k].v = 120000
    /\ Len(resp.body.analysis.issues) = 2
    /\ resp.body.analysis.issues[1].kind = "Long time in"
    /\ resp.body.analysis.issues[2].kind = "Low checkpoint success rate"

\* the step belongs to an analyze invocation: it is one of its silent steps
\* or it returns its response
AnalyzeStep == resp'.op = "analyze" \/ \E p \in Procs : pc'[p] # pc[p]

\* C20: every analyze invocation that ends in an error outcome (no data,
\* run not found, no logs to analyze, failure of the external model,
\* internal error) leaves every stored run unchanged, and so does every
\* step of an invocation before its response; a stored run is marked
\* analyzed only together with its analysis and analysis time; an
\* invocation given inline logs without a run_id writes to no stored run.
C20_ErrorsWriteNothing ==
    [][/\ (AnalyzeStep /\ ~(resp'.op = "analyze" /\ resp'.status = 200)) => store' = store
       /\ (resp'.op = "analyze" /\ ~Has(resp'.req, "run_id")) => store' = store
       /\ (resp'.op = "analyze" /\ resp'.status # 200) =>
              /\ ~Has(resp'.body, "analysis")
              /\ ErrorKind(resp'.status)
                     \in {"InvalidInput", "NotFound", "ExternalServiceError", "InternalError"}
       /\ \A r \in DOMAIN store' :
              /\ store'[r].analyzed <=> Has(store'[r], "analyzed_at")
              /\ store'[r].analyzed => Has(store'[r].analysis, "timeline")
              /\ ~store'[r].analyzed => store'[r].analysis = None
      ]_vars

\* the analysis of a stored run has just failed in the external call and
\* the run is still not analyzed
C20_Witness ==
    /\ resp.op = "analyze"
    /\ resp.status = 502
    /\ Has(resp.req, "run_id")
    /\ resp.req.run_id \in DOMAIN store
    /\ ~store[resp.req.run_id].analyzed
    /\ ~Has(store[resp.req.run_id], "analyzed_at")

\* C21: when the bulk clear deletes a run after an analyze request has read
\* it and before that request's write-back, the write-back does not
\* recreate the run: the store holds no document for that run id after it,
\* and the request still returns its computed analysis as a success.
C21_ClearedRunNotRecreated ==
    [][\A p \in Procs :
          (/\ pc[p] = "write" /\ pc'[p] = "idle"
           /\ local[p].run_id # NoRunId
           /\ local[p].run_id \notin DOMAIN store)
          => /\ local[p].run_id \notin DOMAIN store'
             /\ store' = store
             /\ resp'.op = "analyze"
             /\ resp'.status = 200
             /\ resp'.body.success
             /\ resp'.body.analysis = local[p].analysis
             /\ resp'.body.analysis.timeline = base_analysis(local[p].logs).timeline
      ]_vars

\* the analysis of a run that was ingested, read and then cleared has been
\* returned as a success, and the store is empty
C21_Witness ==
    /\ resp.op = "analyze"
    /\ resp.status = 200
    /\ Has(resp.req, "run_id")
    /\ resp.req.run_id \in 1..nextId
    /\ resp.req.run_id \notin DOMAIN store
    /\ store = <<>>
    /\ resp.body.analysis.timeline # <<>>

====
